---- MODULE Spec2Model ----
(***************************************************************************)
(* A model of yamf-hash (src/src/lib.rs): the YamfHash value, its buffer   *)
(* and stream encoders and its borrowed and owned decoders, together with  *)
(* the parts of the varu64, blake3, arrayvec and std::io::Write crates the *)
(* code calls.                                                             *)
(*                                                                         *)
(* Byte slices are sequences of 0..255.  Rust ranges a..b are 0-based and  *)
(* half open; Slice(s, a, b) is &s[a..b].  A call that panics in Rust      *)
(* yields a result whose tag is "Panic".                                   *)
(***************************************************************************)
EXTENDS Integers, Sequences, FiniteSets, TLC

VARIABLES
    ctor,      \* how `hash` was built: "none", "new_blake3" or "Blake3"
    msg,       \* the bytes given to new_blake3 (<<>> otherwise)
    hash,      \* the YamfHash value the encoders are called on
    out0,      \* the out buffer handed to encode, before the call
    encRes,    \* encode's result, with the out buffer after the call
    w,         \* the sink handed to encode_write
    pc,        \* encode_write's position: "idle", "header", "digest", "done"
    wres,      \* what encode_write returned: "", "Ok" or "EncodeWriteError"
    wlog,      \* the write_all calls encode_write has issued, in order
    bytes,     \* the input handed to decode / decode_owned
    src,       \* where `bytes` came from: "none", "raw", "encode", "encode_write"
    suffix,    \* the bytes appended after an encoding in `bytes`
    dec,       \* decode(bytes), once called
    decOwned   \* decode_owned(bytes), once called

vars == <<ctor, msg, hash, out0, encRes, w, pc, wres, wlog, bytes, src, suffix, dec, decOwned>>

----------------------------------------------------------------------------
(* Bounds of the model *)

MaxMsgLen == 2
MaxOutExtra == 2
MaxSinkCap == 36
MaxFollow == 35
MaxSuffixLen == 2

(* Program constants *)

BLAKE3_OUT_LEN == 32
BLAKE3_HASH_SIZE == 32
BLAKE3_NUMERIC_ID == 0
MAX_YAMF_HASH_SIZE == BLAKE3_HASH_SIZE + 2

----------------------------------------------------------------------------
(* Slices *)

Min(a, b) == IF a < b THEN a ELSE b

\* &s[a..b] is in range
SliceOk(s, a, b) == a <= b /\ b <= Len(s)

\* &s[a..b]
Slice(s, a, b) == SubSeq(s, a + 1, b)

\* s with s[a..a+len(piece)] overwritten by piece
Splice(s, a, piece) ==
    [i \in 1..Len(s) |-> IF a < i /\ i <= a + Len(piece) THEN piece[i - a] ELSE s[i]]

\* n bytes whose value depends on their position
Ramp(n, b) == [i \in 1..n |-> (b + i) % 256]

RECURSIVE SeqsUpTo(_, _)
SeqsUpTo(S, n) ==
    IF n = 0 THEN {<<>>}
    ELSE LET shorter == SeqsUpTo(S, n - 1)
         IN  shorter \cup {Append(s, x) : s \in shorter, x \in S}

----------------------------------------------------------------------------
(* varu64 *)

\* A u64 is held as its big-endian base-256 digits without leading zeros, so
\* that all eight bytes of a wide encoding are kept (<<>> is 0).
RECURSIVE U64(_)
U64(n) == IF n = 0 THEN <<>> ELSE Append(U64(n \div 256), n % 256)

RECURSIVE StripZeros(_)
StripZeros(s) == IF s # <<>> /\ Head(s) = 0 THEN StripZeros(Tail(s)) ELSE s

\* n < 248 for a u64 n
Below248(n) == Len(n) = 0 \/ (Len(n) = 1 /\ n[1] < 248)

\* varu64::encoding_length: 1 below 248, else 1 + the bytes the value needs
varu64_encoding_length(n) == IF Below248(n) THEN 1 ELSE 1 + Len(n)

\* varu64::decode: Ok((value, rest)), or Err for an input that is empty, ends
\* before the bytes its tag announces, or spends more bytes than the value needs
varu64_decode(input) ==
    IF Len(input) = 0
    THEN [tag |-> "Err", value |-> U64(0), kind |-> "UnexpectedEndOfInput", rest |-> input]
    ELSE LET first == input[1] IN
         IF first >= 248
         THEN LET length == (first % 8) + 1 IN
              IF Len(input) < 1 + length
              THEN [tag |-> "Err", value |-> U64(0), kind |-> "UnexpectedEndOfInput",
                    rest |-> <<>>]
              ELSE LET value == StripZeros(Slice(input, 1, 1 + length)) IN
                   IF length > varu64_encoding_length(value) - 1
                   THEN [tag |-> "Err", value |-> value, kind |-> "NonCanonical",
                         rest |-> Slice(input, length + 1, Len(input))]
                   ELSE [tag |-> "Ok", value |-> value, kind |-> "",
                         rest |-> Slice(input, length + 1, Len(input))]
         ELSE [tag |-> "Ok", value |-> U64(first), kind |-> "",
               rest |-> Slice(input, 1, Len(input))]

\* the bytes varu64::encode writes for n
varu64_bytes(n) ==
    IF Below248(n) THEN (IF Len(n) = 0 THEN <<0>> ELSE n)
    ELSE <<247 + Len(n)>> \o n

\* varu64::encode(n, out): writes the encoding at the front of out and returns
\* its length; panics on an out too short to index
varu64_encode(n, o) ==
    IF varu64_encoding_length(n) > Len(o)
    THEN [panic |-> TRUE, out |-> o, written |-> 0]
    ELSE [panic |-> FALSE, out |-> Splice(o, 0, varu64_bytes(n)),
          written |-> varu64_encoding_length(n)]

----------------------------------------------------------------------------
(* blake3: a deterministic stand-in that yields BLAKE3_OUT_LEN bytes *)

RECURSIVE Mix(_, _)
Mix(h, m) == IF m = <<>> THEN h ELSE Mix((h * 31 + Head(m) + 7) % 256, Tail(m))

blake3(m) == [i \in 1..BLAKE3_OUT_LEN |-> (Mix(Len(m) + 1, m) * 5 + i * 11) % 256]

----------------------------------------------------------------------------
(* Digest containers (T: Borrow<[u8]>) and YamfHash<T> *)

VecOf(s) == [kind |-> "Vec", elems |-> s]

\* a view &buf[from..to] into a caller-owned buffer
SliceOf(buf, from, to) == [kind |-> "Slice", buf |-> buf, from |-> from, to |-> to]

ArrayVecNew == [kind |-> "ArrayVec", cap |-> BLAKE3_HASH_SIZE, elems |-> <<>>]

\* ArrayVec::from_iter: takes what fits in the capacity
ArrayVecFromIter(s) ==
    [kind |-> "ArrayVec", cap |-> BLAKE3_HASH_SIZE,
     elems |-> SubSeq(s, 1, Min(Len(s), BLAKE3_HASH_SIZE))]

\* ArrayVec::try_extend_from_slice
try_extend_from_slice(vec, s) ==
    IF Len(s) > vec.cap - Len(vec.elems)
    THEN [ok |-> FALSE, vec |-> vec]
    ELSE [ok |-> TRUE, vec |-> [vec EXCEPT !.elems = vec.elems \o s]]

\* T::borrow(): the bytes a container holds
Borrow(c) == IF c.kind = "Slice" THEN Slice(c.buf, c.from, c.to) ELSE c.elems

Blake3(c) == [variant |-> "Blake3", data |-> c]

NoHash == [variant |-> "None", data |-> VecOf(<<>>)]

\* PartialEq between YamfHash<B2> and YamfHash<B1>
eq(self, other) == Borrow(self.data) = Borrow(other.data)

new_blake3(m) == Blake3(ArrayVecFromIter(blake3(m)))

----------------------------------------------------------------------------
(* YamfHash::encoding_length and YamfHash::encode *)

encoding_length(self) ==
    varu64_encoding_length(U64(BLAKE3_NUMERIC_ID))
        + varu64_encoding_length(U64(BLAKE3_HASH_SIZE))
        + BLAKE3_HASH_SIZE

\* the result of encode(self, out): Ok(n), Err(err) or a panic, with the out
\* buffer as the call leaves it
EncodeResult(tag, n, err, o) == [tag |-> tag, n |-> n, err |-> err, out |-> o]

\* encode with both header bytes encoded into &mut out[0..1]
encode_same_header_slot(self, o) ==
    LET encoded_size == encoding_length(self) IN
    IF Len(o) >= encoded_size
    THEN LET e1 == varu64_encode(U64(BLAKE3_NUMERIC_ID), Slice(o, 0, 1))
             o1 == Splice(o, 0, e1.out)
             e2 == varu64_encode(U64(BLAKE3_HASH_SIZE), Slice(o1, 0, 1))
             o2 == Splice(o1, 0, e2.out)
             digest == Borrow(self.data)
         IN  IF e1.panic THEN EncodeResult("Panic", 0, "", o)
             ELSE IF e2.panic THEN EncodeResult("Panic", 0, "", o1)
             ELSE IF Len(Slice(o2, 2, encoded_size)) # Len(digest)
             THEN EncodeResult("Panic", 0, "", o2)
             ELSE EncodeResult("Ok", encoded_size, "", Splice(o2, 2, digest))
    ELSE EncodeResult("Err", 0, "EncodeError", o)

\* encode that writes the header before it checks the length of out
encode_header_first(self, o) ==
    LET encoded_size == encoding_length(self) IN
    IF Len(o) < 2 THEN EncodeResult("Err", 0, "EncodeError", o)
    ELSE LET o2 == Splice(o, 0, <<BLAKE3_NUMERIC_ID, BLAKE3_HASH_SIZE>>)
             digest == Borrow(self.data)
         IN  IF Len(o) < encoded_size THEN EncodeResult("Err", 0, "EncodeError", o2)
             ELSE IF Len(Slice(o2, 2, encoded_size)) # Len(digest)
             THEN EncodeResult("Panic", 0, "", o2)
             ELSE EncodeResult("Ok", encoded_size, "", Splice(o2, 2, digest))

encode(self, o) ==
    LET encoded_size == encoding_length(self) IN
    IF Len(o) >= encoded_size
    THEN LET e1 == varu64_encode(U64(BLAKE3_NUMERIC_ID), Slice(o, 0, 1))
             o1 == Splice(o, 0, e1.out)
             e2 == varu64_encode(U64(BLAKE3_HASH_SIZE), Slice(o1, 1, 2))
             o2 == Splice(o1, 1, e2.out)
             digest == Borrow(self.data)
         IN  IF e1.panic THEN EncodeResult("Panic", 0, "", o)
             ELSE IF e2.panic THEN EncodeResult("Panic", 0, "", o1)
             \* copy_from_slice panics unless both slices have the same length
             ELSE IF Len(Slice(o2, 2, encoded_size)) # Len(digest)
             THEN EncodeResult("Panic", 0, "", o2)
             ELSE EncodeResult("Ok", encoded_size, "", Splice(o2, 2, digest))
    ELSE EncodeResult("Err", 0, "EncodeError", o)

----------------------------------------------------------------------------
(* YamfHash::decode and YamfHash::decode_owned *)

DecodeResult(tag, err, h, rest) == [tag |-> tag, err |-> err, hash |-> h, rest |-> rest]

NotCalled == DecodeResult("NotCalled", "", NoHash, <<>>)

\* decode whose guard lets an input one byte short through
decode_short_guard(b) ==
    LET r == varu64_decode(b)
        remaining_bytes == r.rest
    IN  IF r.tag = "Ok" /\ r.value = U64(BLAKE3_NUMERIC_ID) /\ Len(remaining_bytes) >= 32
        THEN IF ~SliceOk(remaining_bytes, 1, 33)
                \/ ~SliceOk(remaining_bytes, 33, Len(remaining_bytes))
             THEN DecodeResult("Panic", "", NoHash, <<>>)
             ELSE DecodeResult("Ok", "", Blake3(SliceOf(remaining_bytes, 1, 33)),
                               Slice(remaining_bytes, 33, Len(remaining_bytes)))
        ELSE IF r.tag = "Err"
        THEN DecodeResult("Err", "DecodeVaru64Error", NoHash, <<>>)
        ELSE DecodeResult("Err", "DecodeError", NoHash, <<>>)

\* decode that reports a varu64 failure as Error::DecodeError
decode_collapsed_errors(b) ==
    LET r == varu64_decode(b)
        remaining_bytes == r.rest
    IN  IF r.tag = "Ok" /\ r.value = U64(BLAKE3_NUMERIC_ID) /\ Len(remaining_bytes) >= 33
        THEN DecodeResult("Ok", "", Blake3(SliceOf(remaining_bytes, 1, 33)),
                          Slice(remaining_bytes, 33, Len(remaining_bytes)))
        ELSE DecodeResult("Err", "DecodeError", NoHash, <<>>)

decode(b) ==
    LET r == varu64_decode(b)
        remaining_bytes == r.rest
    IN  IF r.tag = "Ok" /\ r.value = U64(BLAKE3_NUMERIC_ID) /\ Len(remaining_bytes) >= 33
        THEN IF ~SliceOk(remaining_bytes, 1, 33)
                \/ ~SliceOk(remaining_bytes, 33, Len(remaining_bytes))
             THEN DecodeResult("Panic", "", NoHash, <<>>)
             ELSE DecodeResult("Ok", "", Blake3(SliceOf(remaining_bytes, 1, 33)),
                               Slice(remaining_bytes, 33, Len(remaining_bytes)))
        ELSE IF r.tag = "Err"
        THEN DecodeResult("Err", "DecodeVaru64Error", NoHash, <<>>)
        ELSE DecodeResult("Err", "DecodeError", NoHash, <<>>)

\* decode_owned that matches any algorithm id
decode_owned_any_id(b) ==
    LET r == varu64_decode(b)
        remaining_bytes == r.rest
    IN  IF r.tag = "Ok" /\ Len(remaining_bytes) >= 33
        THEN LET ext == try_extend_from_slice(ArrayVecNew, Slice(remaining_bytes, 1, 33))
             IN  IF ~ext.ok
                 THEN DecodeResult("Panic", "", NoHash, <<>>)
                 ELSE DecodeResult("Ok", "", Blake3(ext.vec),
                                   Slice(remaining_bytes, 33, Len(remaining_bytes)))
        ELSE IF r.tag = "Err"
        THEN DecodeResult("Err", "DecodeVaru64Error", NoHash, <<>>)
        ELSE DecodeResult("Err", "DecodeError", NoHash, <<>>)

\* decode_owned that copies remaining_bytes[0..32], the length byte included
decode_owned_from_0(b) ==
    LET r == varu64_decode(b)
        remaining_bytes == r.rest
    IN  IF r.tag = "Ok" /\ r.value = U64(BLAKE3_NUMERIC_ID) /\ Len(remaining_bytes) >= 33
        THEN LET ext == try_extend_from_slice(ArrayVecNew, Slice(remaining_bytes, 0, 32))
             IN  IF ~ext.ok
                 THEN DecodeResult("Panic", "", NoHash, <<>>)
                 ELSE DecodeResult("Ok", "", Blake3(ext.vec),
                                   Slice(remaining_bytes, 33, Len(remaining_bytes)))
        ELSE IF r.tag = "Err"
        THEN DecodeResult("Err", "DecodeVaru64Error", NoHash, <<>>)
        ELSE DecodeResult("Err", "DecodeError", NoHash, <<>>)

decode_owned(b) ==
    LET r == varu64_decode(b)
        remaining_bytes == r.rest
    IN  IF r.tag = "Ok" /\ r.value = U64(BLAKE3_NUMERIC_ID) /\ Len(remaining_bytes) >= 33
        THEN IF ~SliceOk(remaining_bytes, 1, 33)
                \/ ~SliceOk(remaining_bytes, 33, Len(remaining_bytes))
             THEN DecodeResult("Panic", "", NoHash, <<>>)
             ELSE LET ext == try_extend_from_slice(ArrayVecNew, Slice(remaining_bytes, 1, 33))
                  IN  IF ~ext.ok
                      THEN DecodeResult("Panic", "", NoHash, <<>>)
                      ELSE DecodeResult("Ok", "", Blake3(ext.vec),
                                        Slice(remaining_bytes, 33, Len(remaining_bytes)))
        ELSE IF r.tag = "Err"
        THEN DecodeResult("Err", "DecodeVaru64Error", NoHash, <<>>)
        ELSE DecodeResult("Err", "DecodeError", NoHash, <<>>)

----------------------------------------------------------------------------
(* Sinks (std::io::Write) *)

\* a Vec<u8> sink grows; a &mut [u8] sink has room for `cap` more bytes
VecSink == [kind |-> "Vec", cap |-> 0, data |-> <<>>]
SliceSink(cap) == [kind |-> "Slice", cap |-> cap, data |-> <<>>]

NoSink == [kind |-> "None", cap |-> 0, data |-> <<>>]

\* Write::write_all: the sink takes what it has room for, and the call fails
\* unless it took everything
write_all(sink, data) ==
    LET amt == IF sink.kind = "Vec" THEN Len(data) ELSE Min(Len(data), sink.cap)
        cap == IF sink.kind = "Vec" THEN 0 ELSE sink.cap - amt
    IN  [ok |-> amt = Len(data),
         sink |-> [sink EXCEPT !.data = sink.data \o SubSeq(data, 1, amt), !.cap = cap]]

\* the two-byte header encode_write builds in its local `out`
encode_write_header ==
    LET e1 == varu64_encode(U64(BLAKE3_NUMERIC_ID), <<0>>)
        e2 == varu64_encode(U64(BLAKE3_HASH_SIZE), <<0>>)
    IN  e1.out \o e2.out

\* encode_write that drops the first write_all's result instead of returning it
encode_write_header_step_unchecked(sink) ==
    LET r == write_all(sink, encode_write_header)
    IN  [sink |-> r.sink,
         pc |-> "digest",
         res |-> "",
         call |-> [data |-> encode_write_header, ok |-> r.ok,
                   taken |-> Len(r.sink.data) - Len(sink.data)]]

\* encode_write up to and including its first write_all: where it goes next,
\* what it returns if it returns, and the call it issued
encode_write_header_step(sink) ==
    LET r == write_all(sink, encode_write_header)
    IN  [sink |-> r.sink,
         pc |-> IF r.ok THEN "digest" ELSE "done",
         res |-> IF r.ok THEN "" ELSE "EncodeWriteError",
         call |-> [data |-> encode_write_header, ok |-> r.ok,
                   taken |-> Len(r.sink.data) - Len(sink.data)]]

\* encode_write's second write_all and its return
encode_write_digest_step(self, sink) ==
    LET r == write_all(sink, Borrow(self.data))
    IN  [sink |-> r.sink,
         pc |-> "done",
         res |-> IF r.ok THEN "Ok" ELSE "EncodeWriteError",
         call |-> [data |-> Borrow(self.data), ok |-> r.ok,
                   taken |-> Len(r.sink.data) - Len(sink.data)]]

----------------------------------------------------------------------------
(* The inputs the operations are called with *)

MsgBytes == {1, 2, 3}
Msgs == SeqsUpTo(MsgBytes, MaxMsgLen)

\* digests handed to YamfHash::Blake3 directly, of any length the type admits
DigestLens == {4, 2, 31, 32, 33}
Digests == {Ramp(n, 240) : n \in DigestLens}

OutFills == {0, 170}
OutBuffers == {[i \in 1..n |-> f] : n \in 0..(MAX_YAMF_HASH_SIZE + MaxOutExtra), f \in OutFills}

Sinks == {VecSink} \cup {SliceSink(c) : c \in 0..MaxSinkCap}

Suffixes == SeqsUpTo({0, 170}, MaxSuffixLen)

\* leading bytes of a raw input: one-byte ids, canonical and overlong wide ids
Leads == {<<>>, <<0>>, <<0, 32>>, <<0, 5>>, <<0, 248>>, <<1>>, <<1, 32>>, <<247>>,
          <<248>>, <<248, 1>>, <<248, 0>>, <<248, 247>>, <<248, 248>>,
          <<249>>, <<249, 0, 1>>, <<249, 1, 0>>, <<250, 0, 1, 0>>, <<250, 1, 0, 0>>,
          <<251>>, <<255>>, <<255, 0, 0, 0, 0, 0, 0, 0, 0>>,
          <<255, 0, 1, 0, 0, 0, 0, 0, 0>>, <<255, 1, 0, 0, 0, 0, 0, 0, 0>>}
FollowFills == {200, 31}
RawInputs == {l \o Ramp(n, f) : l \in Leads, n \in 0..MaxFollow, f \in FollowFills}

NoEncode == EncodeResult("NotCalled", 0, "", <<>>)

----------------------------------------------------------------------------
(* The state machine *)

Init ==
    /\ ctor = "none" /\ msg = <<>> /\ hash = NoHash
    /\ out0 = <<>> /\ encRes = NoEncode
    /\ w = NoSink /\ pc = "idle" /\ wres = "" /\ wlog = <<>>
    /\ bytes = <<>> /\ src = "none" /\ suffix = <<>>
    /\ dec = NotCalled /\ decOwned = NotCalled

\* nothing has been built, encoded or read yet
Fresh == ctor = "none" /\ src = "none"

\* a value has been built and no encoder has been called on it yet
Built == ctor # "none" /\ encRes.tag = "NotCalled" /\ pc = "idle" /\ src = "none"

\* let h = new_blake3(m)
New_blake3 ==
    /\ Fresh
    /\ \E m \in Msgs :
        ctor' = "new_blake3" /\ msg' = m /\ hash' = new_blake3(m)
    /\ UNCHANGED <<out0, encRes, w, pc, wres, wlog, bytes, src, suffix, dec, decOwned>>

\* let h = YamfHash::Blake3(d)
FromBytes ==
    /\ Fresh
    /\ \E d \in Digests :
        ctor' = "Blake3" /\ msg' = <<>> /\ hash' = Blake3(VecOf(d))
    /\ UNCHANGED <<out0, encRes, w, pc, wres, wlog, bytes, src, suffix, dec, decOwned>>

\* h.encode(&mut out)
Encode ==
    /\ Built
    /\ \E o \in OutBuffers :
        /\ out0' = o
        /\ encRes' = encode(hash, o)
    /\ UNCHANGED <<ctor, msg, hash, w, pc, wres, wlog, bytes, src, suffix, dec, decOwned>>

\* h.encode_write(sink) is entered
EncodeWriteBegin ==
    /\ Built
    /\ \E s \in Sinks : w' = s
    /\ pc' = "header"
    /\ UNCHANGED <<ctor, msg, hash, out0, encRes, wres, wlog, bytes, src, suffix, dec,
                   decOwned>>

EncodeWriteHeader ==
    /\ pc = "header"
    /\ LET s == encode_write_header_step(w)
       IN  w' = s.sink /\ pc' = s.pc /\ wres' = s.res /\ wlog' = Append(wlog, s.call)
    /\ UNCHANGED <<ctor, msg, hash, out0, encRes, bytes, src, suffix, dec, decOwned>>

EncodeWriteDigest ==
    /\ pc = "digest"
    /\ LET s == encode_write_digest_step(hash, w)
       IN  w' = s.sink /\ pc' = s.pc /\ wres' = s.res /\ wlog' = Append(wlog, s.call)
    /\ UNCHANGED <<ctor, msg, hash, out0, encRes, bytes, src, suffix, dec, decOwned>>

\* the caller takes an arbitrary buffer as the decoders' input
ReadRaw ==
    /\ Fresh
    /\ \E b \in RawInputs : bytes' = b
    /\ src' = "raw"
    /\ UNCHANGED <<ctor, msg, hash, out0, encRes, w, pc, wres, wlog, suffix, dec, decOwned>>

\* the caller takes the bytes a successful encode wrote, followed by s
LoadEncoded ==
    /\ encRes.tag = "Ok" /\ src = "none"
    /\ \E s \in Suffixes :
        /\ bytes' = Slice(encRes.out, 0, encRes.n) \o s
        /\ suffix' = s
    /\ src' = "encode"
    /\ UNCHANGED <<ctor, msg, hash, out0, encRes, w, pc, wres, wlog, dec, decOwned>>

\* the caller takes the bytes a successful encode_write wrote, followed by s
LoadWritten ==
    /\ wres = "Ok" /\ src = "none"
    /\ \E s \in Suffixes :
        /\ bytes' = w.data \o s
        /\ suffix' = s
    /\ src' = "encode_write"
    /\ UNCHANGED <<ctor, msg, hash, out0, encRes, w, pc, wres, wlog, dec, decOwned>>

\* YamfHash::decode(&bytes)
Decode ==
    /\ src # "none" /\ dec.tag = "NotCalled"
    /\ dec' = decode(bytes)
    /\ UNCHANGED <<ctor, msg, hash, out0, encRes, w, pc, wres, wlog, bytes, src, suffix,
                   decOwned>>

\* YamfHash::decode_owned(&bytes)
DecodeOwned ==
    /\ src # "none" /\ decOwned.tag = "NotCalled"
    /\ decOwned' = decode_owned(bytes)
    /\ UNCHANGED <<ctor, msg, hash, out0, encRes, w, pc, wres, wlog, bytes, src, suffix,
                   dec>>

\* the caller is done with its values and buffers and starts over
Drop ==
    /\ ~Fresh
    /\ ctor' = "none" /\ msg' = <<>> /\ hash' = NoHash
    /\ out0' = <<>> /\ encRes' = NoEncode
    /\ w' = NoSink /\ pc' = "idle" /\ wres' = "" /\ wlog' = <<>>
    /\ bytes' = <<>> /\ src' = "none" /\ suffix' = <<>>
    /\ dec' = NotCalled /\ decOwned' = NotCalled

Next ==
    \/ New_blake3
    \/ FromBytes
    \/ Encode
    \/ EncodeWriteBegin
    \/ EncodeWriteHeader
    \/ EncodeWriteDigest
    \/ ReadRaw
    \/ LoadEncoded
    \/ LoadWritten
    \/ Decode
    \/ DecodeOwned
    \/ Drop

Spec == Init /\ [][Next]_vars

----------------------------------------------------------------------------
(* Properties *)

\* the two decoders' results, once called
Decoded == {r \in {dec, decOwned} : r.tag # "NotCalled"}

\* the frame the wire format gives a digest: id 0, length 32, the digest
Frame(digest) == <<0, 32>> \o digest

\* b starts with a tag byte >= 248 that is followed by all its bytes, and they
\* hold a value with no shorter encoding
CanonicalWide(b) ==
    LET k == b[1] - 247
    IN  /\ Len(b) >= 1 + k
        /\ (k = 1 => b[2] >= 248)
        /\ (k > 1 => b[2] # 0)

\* the leading varu64 of b is well formed and its value is not 0
LeadsWithOtherId(b) ==
    /\ Len(b) >= 1
    /\ \/ (b[1] < 248 /\ b[1] # 0)
       \/ (b[1] >= 248 /\ CanonicalWide(b))

\* the leading bytes of b are no canonical varu64
MalformedLead(b) == Len(b) = 0 \/ (b[1] >= 248 /\ ~CanonicalWide(b))

RECURSIVE AcceptedBytes(_)
AcceptedBytes(log) ==
    IF log = <<>> THEN <<>>
    ELSE SubSeq(Head(log).data, 1, Head(log).taken) \o AcceptedBytes(Tail(log))

\* C1: encoding new_blake3(m) with encode or encode_write and decoding the
\* encoded bytes followed by a suffix s succeeds with either decoder, returns a
\* value equal to new_blake3(m), and returns exactly s as the remainder.
C1_RoundTrip ==
    (ctor = "new_blake3" /\ src \in {"encode", "encode_write"}) =>
        \A r \in Decoded :
            /\ r.tag = "Ok"
            /\ eq(r.hash, new_blake3(msg))
            /\ eq(new_blake3(msg), r.hash)
            /\ r.rest = suffix

C1_Witness ==
    /\ ctor = "new_blake3" /\ msg = <<1, 2>>
    /\ src = "encode_write" /\ suffix = <<170>>
    /\ dec.tag = "Ok" /\ decOwned.tag = "Ok"
    /\ dec.rest = <<170>>

\* C2: for every YamfHash value with digest d, a successful encode and a
\* successful encode_write both produce exactly 0x00, 0x20 and the bytes of d,
\* 34 bytes in total.
C2_SameFraming ==
    /\ encRes.tag = "Ok" =>
        /\ Slice(encRes.out, 0, encRes.n) = Frame(Borrow(hash.data))
        /\ encRes.n = 34
    /\ wres = "Ok" =>
        /\ w.data = Frame(Borrow(hash.data))
        /\ Len(w.data) = 34

\* C3: for every YamfHash value v, encode(v, buf) with buf sized exactly
\* encoding_length(v) returns Ok(n) with n = encoding_length(v), and
\* encoding_length(v) is the two header bytes plus the digest length of v.
C3_LengthAgreement ==
    (encRes.tag # "NotCalled" /\ Len(out0) = encoding_length(hash)) =>
        /\ encRes.tag = "Ok"
        /\ encRes.n = encoding_length(hash)
        /\ encoding_length(hash) = 1 + 1 + Len(Borrow(hash.data))

\* C4: an input that begins with 0x00 and is shorter than 34 bytes makes decode
\* and decode_owned return Error::DecodeError: no panic, no value.
C4_TruncationRejected ==
    (Len(bytes) >= 1 /\ Len(bytes) < 34 /\ bytes[1] = 0) =>
        \A r \in Decoded : r.tag = "Err" /\ r.err = "DecodeError"

C4_Witness ==
    /\ Len(bytes) = 33 /\ bytes[1] = 0 /\ bytes[2] = 32
    /\ dec.tag = "Err" /\ decOwned.tag = "Err"

C6_DeclaredLengthValidated ==
    (Len(bytes) >= 34 /\ bytes[1] = 0 /\ bytes[2] # 32) =>
        \A r \in Decoded : r.tag = "Err"

\* C7: an input whose leading bytes are no canonical varu64 (empty, cut short,
\* overlong) fails with Error::DecodeVaru64Error, not Error::DecodeError,
\* however many bytes follow.
C7_MalformedRejected ==
    MalformedLead(bytes) =>
        \A r \in Decoded :
            r.tag = "Err" /\ r.err = "DecodeVaru64Error" /\ r.err # "DecodeError"

C7_Witness ==
    /\ Len(bytes) >= 34 /\ bytes[1] = 248 /\ bytes[2] = 1
    /\ dec.tag = "Err" /\ decOwned.tag = "Err"

\* C8: encode into an out shorter than encoding_length returns
\* Err(Error::EncodeError) and leaves out as it was; a successful encode into a
\* longer out leaves the bytes from index encoding_length on as they were.
C8_AllOrNothing ==
    encRes.tag # "NotCalled" =>
        /\ Len(out0) < encoding_length(hash) =>
            encRes.tag = "Err" /\ encRes.err = "EncodeError" /\ encRes.out = out0
        /\ (Len(out0) > encoding_length(hash) /\ encRes.tag = "Ok") =>
            /\ Len(encRes.out) = Len(out0)
            /\ \A i \in (encoding_length(hash) + 1)..Len(out0) : encRes.out[i] = out0[i]

C8_Witness ==
    /\ ctor = "new_blake3"
    /\ Len(out0) = 33 /\ out0[1] = 170
    /\ encRes.tag = "Err" /\ encRes.out = out0

\* C9: encode_write writes the two header bytes, then the digest; a rejected
\* write makes it return Err(Error::EncodeWriteError) with no later write; it
\* returns Ok(()) only if the sink took every byte; what the sink took before a
\* failure stays in the sink.
C9_StreamAbortsOnFirstFailure ==
    pc # "idle" =>
        /\ Len(wlog) <= 2
        /\ Len(wlog) >= 1 => wlog[1].data = <<0, 32>>
        /\ Len(wlog) = 2 => wlog[2].data = Borrow(hash.data)
        /\ \A i \in 1..(Len(wlog) - 1) : wlog[i].ok
        /\ (\E i \in 1..Len(wlog) : ~wlog[i].ok) =>
            pc = "done" /\ wres = "EncodeWriteError"
        /\ wres = "Ok" =>
            /\ Len(wlog) = 2 /\ wlog[1].ok /\ wlog[2].ok
            /\ w.data = Frame(Borrow(hash.data))
        /\ w.data = AcceptedBytes(wlog)

C9_Witness ==
    /\ wres = "EncodeWriteError"
    /\ Len(wlog) = 2 /\ wlog[1].ok /\ ~wlog[2].ok
    /\ Len(w.data) = 5

\* C10: decode and decode_owned of the same bytes fail with the same error kind,
\* or both succeed with the same remainder and with values equal to each other
\* in both argument orders.
C10_BorrowedOwnedAgree ==
    (dec.tag # "NotCalled" /\ decOwned.tag # "NotCalled") =>
        /\ dec.tag = decOwned.tag
        /\ dec.tag \in {"Ok", "Err"}
        /\ dec.err = decOwned.err
        /\ dec.tag = "Ok" =>
            /\ dec.rest = decOwned.rest
            /\ eq(dec.hash, decOwned.hash)
            /\ eq(decOwned.hash, dec.hash)

C10_Witness ==
    /\ src = "raw"
    /\ dec.tag = "Ok" /\ decOwned.tag = "Ok"
    /\ dec.hash.data.kind = "Slice" /\ decOwned.hash.data.kind = "ArrayVec"
    /\ Len(dec.rest) = 2

====
